---------------------------- MODULE Spec2Model ----------------------------
(***************************************************************************)
(* Currency-prediction: the feature pipeline (src/src/features_extractor.py)*)
(* and the daily predict-then-retrain cycle (src/main.py over               *)
(* src/src/database.py and src/src/currency_scrapper.py).                   *)
(*                                                                          *)
(* Two specifications share the module:                                     *)
(*   FeatSpec  prepare_features applied to every bounded value series;      *)
(*   Spec      the cycles of main() over the SQLite tables and model files. *)
(*                                                                          *)
(* Numbers.  A float cell is an exact rational <<num, den>> in lowest terms *)
(* and NaN is <<>>.  A standard deviation is carried as its square (the     *)
(* sample variance): std >= 0, so std and std^2 determine each other.       *)
(* Dates are day numbers; date + 1 is the next calendar day.                *)
(***************************************************************************)
EXTENDS Integers, Sequences, FiniteSets, TLC

VARIABLES
    \* ---- feature pipeline (FeatSpec)
    data,           \* the 'value' column handed to prepare_features
    table,          \* the DataFrame prepare_features returned (NoTable before)
    fpc,            \* "input" | "done" | "raised"
    \* ---- database, model files and main() (Spec)
    Currencies,     \* table Currencies: rows [currency_id, name]
    ExchangeRates,  \* table ExchangeRates: rows [rate_id, currency_id, date, value]
    Predictions,    \* table Predictions: rows [prediction_id, currency_id, date, value]
    files,          \* models/model_<id>.joblib: id -> persisted parameters
    cycle,          \* number of runs of main() started so far
    pc,             \* position of main(): idle, load, predict, insert, retrain, done, raised
    currency_df,    \* main's currency_df (the table exchange_rates_insert returned)
    date,           \* main's date
    models,         \* main's models dict: id -> parameters of the in-memory model
    predictions,    \* predict_values' list of (currency_id, prediction)
    i,              \* the currency id a per-currency loop raised at
    \* ---- history variables (observation only, never read by an action's guard)
    raisedIn,       \* the statement of main() an exception escaped from, or "none"
    loaded,         \* the parameters joblib.load returned in this cycle
    before,         \* table Predictions as it was when this cycle started
    sinkCalls,      \* calls of predictions_insert in this cycle
    fitted          \* ids whose model.fit was called in this cycle

featVars == <<data, table, fpc>>
mainVars == <<Currencies, ExchangeRates, Predictions, files, cycle, pc, currency_df,
              date, models, predictions, i, raisedIn, loaded, before, sinkCalls, fitted>>
vars == <<featVars, mainVars>>

---------------------------------------------------------------------------
(* Bounds: the longest series and largest value handed to                  *)
(* prepare_features, the number of currency names, the number of runs of   *)
(* main(), and the days of history database_init_pipeline downloads (two   *)
(* full STL periods, so that a listed currency's history is not short).    *)
MaxLen == 4
MaxValue == 2
MaxNames == 2
MaxCycles == 2
HistDays == 20

(* STL(data["value"], period=10) *)
Period == 10

Values == 0..MaxValue

---------------------------------------------------------------------------
(* Exact arithmetic on cells *)

NaN == <<>>

IsNaN(c) == c = NaN

Abs(n) == IF n < 0 THEN -n ELSE n

RECURSIVE GCD(_, _)
GCD(a, b) == IF b = 0 THEN a ELSE GCD(b, a % b)

Rat(n, d) ==
    LET g == GCD(Abs(n), d)
    IN  <<n \div g, d \div g>>

Num(v) == Rat(v, 1)

RAdd(a, b) == Rat(a[1] * b[2] + b[1] * a[2], a[2] * b[2])

RSub(a, b) == Rat(a[1] * b[2] - b[1] * a[2], a[2] * b[2])

RMul(a, b) == Rat(a[1] * b[1], a[2] * b[2])

RDivInt(a, n) == Rat(a[1], a[2] * n)

RECURSIVE RSum(_)
RSum(s) == IF s = <<>> THEN Num(0) ELSE RAdd(s[1], RSum(Tail(s)))

RECURSIVE SelectValid(_)
SelectValid(s) ==
    IF s = <<>> THEN <<>>
    ELSE IF IsNaN(s[1]) THEN SelectValid(Tail(s))
    ELSE <<s[1]>> \o SelectValid(Tail(s))

Mean(s) == RDivInt(RSum(s), Len(s))

(* sample variance, ddof = 1: sum((x - mean)^2) / (n - 1) *)
Var(s) ==
    LET m == Mean(s)
        sq == [k \in 1..Len(s) |-> RMul(RSub(s[k], m), RSub(s[k], m))]
    IN  RDivInt(RSum(sq), Len(s) - 1)

---------------------------------------------------------------------------
(* pandas Series operations used by features_extractor.py.  A Series is a  *)
(* sequence of cells, row t of the DataFrame at index t + 1.               *)

ValueColumn(vals) == [t \in 1..Len(vals) |-> Num(vals[t])]

Shift(s, k) == [t \in 1..Len(s) |-> IF t - k >= 1 THEN s[t - k] ELSE NaN]

Diff(s, k) ==
    [t \in 1..Len(s) |->
        IF t - k >= 1 /\ ~IsNaN(s[t]) /\ ~IsNaN(s[t - k])
        THEN RSub(s[t], s[t - k]) ELSE NaN]

(* the rows a trailing window of w rows ending at row t holds *)
WindowAt(s, t, w) ==
    LET lo == IF t - w + 1 >= 1 THEN t - w + 1 ELSE 1
    IN  SubSeq(s, lo, t)

(* rolling(window=w): min_periods defaults to w *)
RollingMean(s, w) ==
    [t \in 1..Len(s) |->
        LET obs == SelectValid(WindowAt(s, t, w))
        IN  IF Len(obs) >= w THEN Mean(obs) ELSE NaN]

RollingStd(s, w) ==
    [t \in 1..Len(s) |->
        LET obs == SelectValid(WindowAt(s, t, w))
        IN  IF Len(obs) >= w /\ Len(obs) >= 2 THEN Var(obs) ELSE NaN]

(* expanding(): min_periods defaults to 1 *)
ExpandingMean(s) ==
    [t \in 1..Len(s) |->
        LET obs == SelectValid(SubSeq(s, 1, t))
        IN  IF Len(obs) >= 1 THEN Mean(obs) ELSE NaN]

---------------------------------------------------------------------------
(* features_extractor.py *)

ShiftFeatureShiftedFurther(vals, shift) == Shift(ValueColumn(vals), shift + 1)

ShiftFeature(vals, shift) == Shift(ValueColumn(vals), shift)

MeanRollingUnshifted(vals, window) == RollingMean(ValueColumn(vals), window)

MeanRolling(vals, window) == RollingMean(Shift(ValueColumn(vals), 1), window)

StdRolling(vals, window) == RollingStd(Shift(ValueColumn(vals), 1), window)

ShiftedDiff(vals, lag) == Diff(ValueColumn(vals), lag)

ExpandingWindow(vals) == ExpandingMean(Shift(ValueColumn(vals), 1))

(* STL(...).fit() is statsmodels code: a component at row t is a LOESS     *)
(* smooth of the whole series, kept here as the uninterpreted application  *)
(* of the component to (t, series).  The three components of a row add up  *)
(* to the row's value (resid = value - seasonal - trend), so together they *)
(* do depend on it.                                                        *)
StlComponent(name, vals) == [t \in 1..Len(vals) |-> <<name, t, vals>>]

(* Whether STL raises on a series shorter than two periods is statsmodels' *)
(* business and is not guarded by stl_components: both outcomes are kept.  *)
StlMayRaise(n) == n < 2 * Period

NoTable == [rows |-> -1]

PrepareFeatures(vals) ==
    [rows            |-> Len(vals),
     date            |-> [t \in 1..Len(vals) |-> t],
     value           |-> ValueColumn(vals),
     shift_1         |-> ShiftFeature(vals, 1),
     shift_2         |-> ShiftFeature(vals, 2),
     rolling_2_mean  |-> MeanRolling(vals, 2),
     rolling_3_mean  |-> MeanRolling(vals, 3),
     rolling_2_std   |-> StdRolling(vals, 2),
     rolling_3_std   |-> StdRolling(vals, 3),
     value_lag_1     |-> ShiftedDiff(vals, 1),
     value_lag_2     |-> ShiftedDiff(vals, 2),
     trend           |-> StlComponent("trend", vals),
     seasonal        |-> StlComponent("seasonal", vals),
     resid           |-> StlComponent("resid", vals),
     expanding_mean_1 |-> ExpandingWindow(vals)]

(* the feature cells of row t: every column but 'value' and 'date' *)
FeatureRow(tb, t) ==
    [shift_1 |-> tb.shift_1[t], shift_2 |-> tb.shift_2[t],
     rolling_2_mean |-> tb.rolling_2_mean[t], rolling_3_mean |-> tb.rolling_3_mean[t],
     rolling_2_std |-> tb.rolling_2_std[t], rolling_3_std |-> tb.rolling_3_std[t],
     value_lag_1 |-> tb.value_lag_1[t], value_lag_2 |-> tb.value_lag_2[t],
     trend |-> tb.trend[t], seasonal |-> tb.seasonal[t], resid |-> tb.resid[t],
     expanding_mean_1 |-> tb.expanding_mean_1[t]]

(* the rolling and expanding cells of row t *)
RollingRow(tb, t) ==
    [rolling_2_mean |-> tb.rolling_2_mean[t], rolling_3_mean |-> tb.rolling_3_mean[t],
     rolling_2_std |-> tb.rolling_2_std[t], rolling_3_std |-> tb.rolling_3_std[t],
     expanding_mean_1 |-> tb.expanding_mean_1[t]]

PrepareReturns ==
    /\ fpc = "input"
    /\ table' = PrepareFeatures(data)
    /\ fpc' = "done"
    /\ UNCHANGED <<data, mainVars>>

PrepareRaises ==
    /\ fpc = "input"
    /\ StlMayRaise(Len(data))
    /\ fpc' = "raised"
    /\ UNCHANGED <<data, table, mainVars>>

Series == UNION {[1..n -> Values] : n \in 0..MaxLen}

MainIdle ==
    /\ Currencies = <<>> /\ ExchangeRates = <<>> /\ Predictions = <<>>
    /\ files = <<>> /\ cycle = 0 /\ pc = "idle" /\ currency_df = <<>>
    /\ date = 0 /\ models = <<>> /\ predictions = <<>> /\ i = 0
    /\ raisedIn = "none" /\ loaded = <<>> /\ before = <<>>
    /\ sinkCalls = 0 /\ fitted = {}

FeatInit ==
    /\ data \in Series
    /\ table = NoTable
    /\ fpc = "input"
    /\ MainIdle

FeatNext == PrepareReturns \/ PrepareRaises

FeatSpec == FeatInit /\ [][FeatNext]_vars

---------------------------------------------------------------------------
(* currency_scrapper.py.  A currency is named by a number in Names; the    *)
(* rate the API quotes for a currency on a day is kept as the pair it is a *)
(* rate of.                                                                *)

Names == 1..MaxNames

Rate(name, day) == [of |-> name, on |-> day]

CurrencyJsonToDf(rates, effectiveDate) ==
    [k \in 1..Len(rates) |->
        [name |-> rates[k], value |-> Rate(rates[k], effectiveDate), date |-> effectiveDate]]

WithTable(df, label) ==
    [k \in 1..Len(df) |->
        [name |-> df[k].name, value |-> df[k].value, date |-> df[k].date, table |-> label]]

(* tables "a" then "b", concatenated and re-indexed *)
CurrentCurrenciesValues(ratesA, dateA, ratesB, dateB) ==
    WithTable(CurrencyJsonToDf(ratesA, dateA), "a")
        \o WithTable(CurrencyJsonToDf(ratesB, dateB), "b")

RECURSIVE DaysOfTable(_, _, _, _)
DaysOfTable(rates, label, day, lastDay) ==
    IF day > lastDay THEN <<>>
    ELSE WithTable(CurrencyJsonToDf(rates, day), label)
            \o DaysOfTable(rates, label, day + 1, lastDay)

(* for each table, every day from the first to yesterday *)
HistoricalCurrenciesValues(ratesA, ratesB, lastDay) ==
    DaysOfTable(ratesA, "a", 1, lastDay) \o DaysOfTable(ratesB, "b", 1, lastDay)

---------------------------------------------------------------------------
(* database.py *)

ReturnValues(rows, currency_id) ==
    SelectSeq(rows, LAMBDA r : r.currency_id = currency_id)

CurrenciesInsert(cur, df) ==
    IF cur = <<>>
    THEN [k \in 1..Len(df) |-> [currency_id |-> k - 1, name |-> df[k].name]]
    ELSE cur

(* SELECT currency_id FROM Currencies WHERE name = ...; fetchone(): the    *)
(* first matching row, None (here -1) without one                          *)
LookupCurrency(cur, name) ==
    LET hits == SelectSeq(cur, LAMBDA r : r.name = name)
    IN  IF hits = <<>> THEN -1 ELSE hits[1].currency_id

RECURSIVE RowsByPosition(_, _, _, _)
RowsByPosition(inDb, cur, df, idx) ==
    IF idx > Len(df) THEN <<>>
    ELSE LET result == LookupCurrency(cur, df[idx].name)
             row == [rate_id |-> idx - 1, currency_id |-> idx - 1,
                     date |-> df[idx].date, value |-> df[idx].value]
         IN  (IF result /= -1 /\ (idx - 1) \notin inDb THEN <<row>> ELSE <<>>)
                 \o RowsByPosition(inDb, cur, df, idx + 1)

ExchangeRatesInsertByPosition(rows, cur, df) ==
    rows \o RowsByPosition({rows[k].currency_id : k \in 1..Len(rows)}, cur, df, 1)

(* the list `data` of exchange_rates_insert: data.insert(idx, ...) appends, *)
(* as len(data) <= idx                                                      *)
RECURSIVE NewRows(_, _, _, _)
NewRows(values_in_db, cur, df, idx) ==
    IF idx > Len(df) THEN <<>>
    ELSE LET result == LookupCurrency(cur, df[idx].name)
             row == [rate_id |-> idx - 1, currency_id |-> result,
                     date |-> df[idx].date, value |-> df[idx].value]
         IN  (IF result /= -1 /\ result \notin values_in_db THEN <<row>> ELSE <<>>)
                 \o NewRows(values_in_db, cur, df, idx + 1)

ExchangeRatesInsert(rows, cur, df) ==
    rows \o NewRows({rows[k].currency_id : k \in 1..Len(rows)}, cur, df, 1)

PredictionsInsertRows(rows, prediction_df, tomorrow) ==
    rows \o [k \in 1..Len(prediction_df) |->
                [prediction_id |-> k - 1,
                 currency_id   |-> prediction_df[k].currency_id,
                 date          |-> tomorrow,
                 value         |-> prediction_df[k].prediction]]

---------------------------------------------------------------------------
(* The regressors are scikit-learn objects: fit replaces the parameters by *)
(* a function of the training rows, predict applies the parameters to the  *)
(* last feature row.  Parameters are kept as what they were fitted on.     *)

Pretrained == [trainedOn |-> {}, rows |-> 0, gen |-> 0]

Fit(params, hist) ==
    [trainedOn |-> {hist[k].value.of : k \in 1..Len(hist)},
     rows      |-> Len(hist),
     gen       |-> params.gen + 1]

ModelPredict(params, hist) ==
    [params |-> params,
     of     |-> {hist[k].value.of : k \in 1..Len(hist)},
     last   |-> hist[Len(hist)].date]

---------------------------------------------------------------------------
(* main.py *)

NextPhaseRetrainFirst(p) ==
    CASE p = "load"    -> "retrain"
      [] p = "retrain" -> "predict"
      [] p = "predict" -> "insert"
      [] p = "insert"  -> "done"

(* the statements of main() in their order *)
NextPhase(p) ==
    CASE p = "load"    -> "predict"
      [] p = "predict" -> "insert"
      [] p = "insert"  -> "retrain"
      [] p = "retrain" -> "done"

(* predict_values returns prediction_df and nothing else: no list of the   *)
(* ids it skipped or failed on reaches the caller                          *)
SkippedReport == {}

Tomorrow(d) == d + 1

(* The rows of a fetched table that table "a" contributes: table "b" is    *)
(* taken to list the last currency of a table of two or more.              *)
RowsOfTableA(n) == IF n = 1 THEN 1 ELSE n - 1

(* the currency tables the API may return: any order of any currencies *)
FetchedTables ==
    {s \in UNION {[1..n -> Names] : n \in 1..MaxNames} :
        \A a, b \in DOMAIN s : a /= b => s[a] /= s[b]}

(* exchange_rates_insert(), date = currency_df.loc[0, "date"], models = {} *)
StartCycle ==
    /\ pc \in {"idle", "done", "raised"}
    /\ cycle < MaxCycles
    /\ \E s \in FetchedTables :
       \E dateA, dateB \in {HistDays + cycle, HistDays + cycle + 1} :
          LET split == RowsOfTableA(Len(s))
              df == CurrentCurrenciesValues(SubSeq(s, 1, split), dateA,
                                            SubSeq(s, split + 1, Len(s)), dateB)
          IN  /\ ExchangeRates' = ExchangeRatesInsert(ExchangeRates, Currencies, df)
              /\ currency_df' = df
              /\ date' = df[1].date
    /\ cycle' = cycle + 1
    /\ pc' = "load"
    /\ models' = <<>> /\ predictions' = <<>> /\ i' = 0
    /\ raisedIn' = "none" /\ loaded' = <<>> /\ before' = Predictions
    /\ sinkCalls' = 0 /\ fitted' = {}
    /\ UNCHANGED <<featVars, Currencies, Predictions, files>>

UniverseIds == 0..(Len(currency_df) - 1)

Raise(where) ==
    /\ pc' = "raised"
    /\ raisedIn' = where

(* for i in range(len(currency_df)): models[i] = joblib.load(model_i) *)
LoadModels ==
    /\ pc = "load"
    /\ UniverseIds \subseteq DOMAIN files
    /\ models' = [id \in UniverseIds |-> files[id]]
    /\ loaded' = [id \in UniverseIds |-> files[id]]
    /\ pc' = NextPhase("load")
    /\ i' = 0
    /\ UNCHANGED <<featVars, Currencies, ExchangeRates, Predictions, files, cycle,
                   currency_df, date, predictions, raisedIn, before, sinkCalls, fitted>>

LoadRaises ==
    /\ pc = "load"
    /\ ~(UniverseIds \subseteq DOMAIN files)
    /\ Raise("load")
    /\ UNCHANGED <<featVars, Currencies, ExchangeRates, Predictions, files, cycle,
                   currency_df, date, models, predictions, i, loaded, before,
                   sinkCalls, fitted>>

(* predict_values' loop over the ids below `upto`: prepare_features keeps  *)
(* one row per observation, so X has a row iff the history has one         *)
RECURSIVE PredictUpTo(_, _, _)
PredictUpTo(rows, mdls, upto) ==
    IF upto = 0 THEN <<>>
    ELSE LET id == upto - 1
             hist == ReturnValues(rows, id)
         IN  PredictUpTo(rows, mdls, id)
                 \o (IF Len(hist) > 0
                     THEN <<[currency_id |-> id, prediction |-> ModelPredict(mdls[id], hist)]>>
                     ELSE <<>>)

PredictValues ==
    /\ pc = "predict"
    /\ predictions' = PredictUpTo(ExchangeRates, models, Len(currency_df))
    /\ pc' = NextPhase("predict")
    /\ i' = 0
    /\ UNCHANGED <<featVars, Currencies, ExchangeRates, Predictions, files, cycle,
                   currency_df, date, models, raisedIn, loaded, before, sinkCalls, fitted>>

(* prepare_features (or predict on its last row) raises at currency id *)
PredictValuesRaises ==
    /\ pc = "predict"
    /\ \E id \in UniverseIds :
          /\ StlMayRaise(Len(ReturnValues(ExchangeRates, id)))
          /\ predictions' = PredictUpTo(ExchangeRates, models, id)
          /\ i' = id
    /\ Raise("predict")
    /\ UNCHANGED <<featVars, Currencies, ExchangeRates, Predictions, files, cycle,
                   currency_df, date, models, loaded, before, sinkCalls, fitted>>

(* tomorrow = date + 1 day; db.predictions_insert(prediction_df, tomorrow) *)
PredictionsInsert ==
    /\ pc = "insert"
    /\ Predictions' = PredictionsInsertRows(Predictions, predictions, Tomorrow(date))
    /\ sinkCalls' = sinkCalls + 1
    /\ pc' = NextPhase("insert")
    /\ i' = 0
    /\ UNCHANGED <<featVars, Currencies, ExchangeRates, files, cycle, currency_df, date,
                   models, predictions, raisedIn, loaded, before, fitted>>

(* retrain_and_save_models' loop over the items of models below `upto`:   *)
(* model.fit(X, y), then joblib.dump                                       *)
RefitUpTo(rows, mdls, upto) ==
    [id \in DOMAIN mdls |->
        IF id < upto THEN Fit(mdls[id], ReturnValues(rows, id)) ELSE mdls[id]]

SaveUpTo(fs, mdls, upto) ==
    [id \in DOMAIN fs |-> IF id \in DOMAIN mdls /\ id < upto THEN mdls[id] ELSE fs[id]]

(* fit on no sample raises; whether STL raises on a short series is open *)
RetrainMustRaise(rows, id) == Len(ReturnValues(rows, id)) = 0

RetrainAndSaveModels ==
    /\ pc = "retrain"
    /\ \A id \in DOMAIN models : ~RetrainMustRaise(ExchangeRates, id)
    /\ models' = RefitUpTo(ExchangeRates, models, Len(currency_df))
    /\ files' = SaveUpTo(files, models', Len(currency_df))
    /\ fitted' = DOMAIN models
    /\ pc' = NextPhase("retrain")
    /\ i' = 0
    /\ UNCHANGED <<featVars, Currencies, ExchangeRates, Predictions, cycle,
                   currency_df, date, predictions, raisedIn, loaded, before, sinkCalls>>

RetrainRaises ==
    /\ pc = "retrain"
    /\ \E id \in DOMAIN models :
          /\ \A earlier \in DOMAIN models :
                 earlier < id => ~RetrainMustRaise(ExchangeRates, earlier)
          /\ \/ RetrainMustRaise(ExchangeRates, id)
             \/ StlMayRaise(Len(ReturnValues(ExchangeRates, id)))
          /\ models' = RefitUpTo(ExchangeRates, models, id)
          /\ files' = SaveUpTo(files, models', id)
          /\ fitted' = {earlier \in DOMAIN models : earlier < id}
          /\ i' = id
    /\ Raise("retrain")
    /\ UNCHANGED <<featVars, Currencies, ExchangeRates, Predictions, cycle,
                   currency_df, date, predictions, loaded, before, sinkCalls>>

(* The state database_init_pipeline leaves: Currencies numbered by position *)
(* in the table fetched then, ExchangeRates holding the historical tables   *)
(* (which list every currency, or all but one), and the model files trained *)
(* beforehand (one per currency, or the last one missing).                  *)
Init ==
    /\ data = <<>> /\ table = NoTable /\ fpc = "input"
    /\ \E n \in 1..MaxNames, unlisted \in 0..MaxNames :
          LET s == [k \in 1..n |-> k]
              split == RowsOfTableA(n)
              df == CurrentCurrenciesValues(SubSeq(s, 1, split), HistDays + 1,
                                            SubSeq(s, split + 1, n), HistDays + 1)
              inHist(names) == SelectSeq(names, LAMBDA x : x /= unlisted)
              hist == HistoricalCurrenciesValues(inHist(SubSeq(s, 1, split)),
                                                 inHist(SubSeq(s, split + 1, n)), HistDays)
          IN  /\ unlisted <= n
              /\ Currencies = CurrenciesInsert(<<>>, df)
              /\ ExchangeRates = ExchangeRatesInsert(<<>>, Currencies, hist)
              /\ \E k \in {n - 1, n} : files = [id \in 0..(k - 1) |-> Pretrained]
    /\ Predictions = <<>>
    /\ cycle = 0 /\ pc = "idle" /\ currency_df = <<>> /\ date = 0
    /\ models = <<>> /\ predictions = <<>> /\ i = 0
    /\ raisedIn = "none" /\ loaded = <<>> /\ before = <<>>
    /\ sinkCalls = 0 /\ fitted = {}

Next ==
    \/ StartCycle
    \/ LoadModels
    \/ LoadRaises
    \/ PredictValues
    \/ PredictValuesRaises
    \/ PredictionsInsert
    \/ RetrainAndSaveModels
    \/ RetrainRaises

Spec == Init /\ [][Next]_vars

---------------------------------------------------------------------------
(* Properties of the feature pipeline (checked under FeatSpec) *)

Mutate(vals, t, v) == [vals EXCEPT ![t] = v]

RECURSIVE IntSum(_)
IntSum(s) == IF s = <<>> THEN 0 ELSE s[1] + IntSum(Tail(s))

IntSumSq(s) == IntSum([k \in 1..Len(s) |-> s[k] * s[k]])

(* mean and variance of the raw values at rows lo..hi, written out directly *)
PriorMean(lo, hi) == Rat(IntSum(SubSeq(data, lo, hi)), hi - lo + 1)

PriorVar(lo, hi) ==
    LET n == hi - lo + 1
        xs == SubSeq(data, lo, hi)
    IN  Rat(n * IntSumSq(xs) - IntSum(xs) * IntSum(xs), n * (n - 1))

(* C4: no feature column leaks the current day's value: for every row t,   *)
(* changing value[t] alone leaves every feature cell of row t (all columns *)
(* but 'value' and 'date') as it was.                                      *)
C4_NoFeatureLeaksCurrentValue ==
    fpc = "done" =>
        \A t \in 1..Len(data) : \A v \in Values :
            FeatureRow(PrepareFeatures(Mutate(data, t, v)), t) = FeatureRow(table, t)

(* C5: rolling_2_mean, rolling_3_mean, rolling_2_std, rolling_3_std and    *)
(* expanding_mean_1 at row t do not change when value[t] changes; the      *)
(* rolling window at row t covers exactly the `window` rows before t and   *)
(* the expanding mean covers exactly all rows before t; the cell is        *)
(* undefined where that range is not fully available.                      *)
C5_RollingExcludesCurrentValue ==
    fpc = "done" =>
        \A t \in 1..Len(data) :
            /\ \A v \in Values :
                   RollingRow(PrepareFeatures(Mutate(data, t, v)), t) = RollingRow(table, t)
            /\ table.rolling_2_mean[t] = IF t - 2 >= 1 THEN PriorMean(t - 2, t - 1) ELSE NaN
            /\ table.rolling_3_mean[t] = IF t - 3 >= 1 THEN PriorMean(t - 3, t - 1) ELSE NaN
            /\ table.rolling_2_std[t] = IF t - 2 >= 1 THEN PriorVar(t - 2, t - 1) ELSE NaN
            /\ table.rolling_3_std[t] = IF t - 3 >= 1 THEN PriorVar(t - 3, t - 1) ELSE NaN
            /\ table.expanding_mean_1[t] = IF t - 1 >= 1 THEN PriorMean(1, t - 1) ELSE NaN

(* a table whose fourth row has every rolling statistic defined, over a    *)
(* window that is not constant, and a current value off the window's mean  *)
C5_Witness ==
    /\ fpc = "done"
    /\ Len(data) >= 4
    /\ ~IsNaN(table.rolling_3_std[4])
    /\ table.rolling_3_std[4] /= Num(0)
    /\ table.rolling_2_std[4] /= Num(0)
    /\ table.value[4] /= table.rolling_3_mean[4]
    /\ table.value[4] /= table.expanding_mean_1[4]

ShiftColumn(tb, k) == IF k = 1 THEN tb.shift_1 ELSE tb.shift_2

(* C6: for each lag k in {1, 2} and every row t with a row t-k, shift_k[t] *)
(* is value[t-k] exactly; for the first k rows shift_k is missing; the     *)
(* table keeps one row per input observation.                              *)
C6_LagFeaturesExact ==
    fpc = "done" =>
        /\ table.rows = Len(data)
        /\ Len(table.value) = Len(data)
        /\ \A k \in {1, 2} :
            /\ Len(ShiftColumn(table, k)) = Len(data)
            /\ \A t \in 1..Len(data) :
                   ShiftColumn(table, k)[t] =
                       IF t - k >= 1 THEN table.value[t - k] ELSE NaN

(* three rows with distinct values: shift_2 missing on the first two rows, *)
(* defined on the third                                                    *)
C6_Witness ==
    /\ fpc = "done"
    /\ Len(data) >= 3
    /\ data[1] /= data[2] /\ data[2] /= data[3] /\ data[1] /= data[3]
    /\ IsNaN(table.shift_2[2])
    /\ table.shift_2[3] = Num(data[1])
    /\ table.shift_1[3] = Num(data[2])

---------------------------------------------------------------------------
(* Properties of the cycle of main() (checked under Spec) *)

IsPrefix(a, b) == Len(a) <= Len(b) /\ SubSeq(b, 1, Len(a)) = a

(* the rows of table Predictions written since this cycle started *)
CycleRows == SubSeq(Predictions, Len(before) + 1, Len(Predictions))

CycleEnded == pc \in {"done", "raised"}

(* predict_values has returned in this cycle *)
ForecastReturned == pc \in {"insert", "retrain", "done"} \/ raisedIn = "retrain"

PredictedIds == {predictions[k].currency_id : k \in 1..Len(predictions)}

EmptyIds == {id \in UniverseIds : ReturnValues(ExchangeRates, id) = <<>>}

MaxOf(S) == CHOOSE m \in S : \A x \in S : x <= m

(* every date observed by the cycle: the fetched table's and the stored ones *)
ObservedDates ==
    {currency_df[k].date : k \in 1..Len(currency_df)}
        \cup {ExchangeRates[k].date : k \in 1..Len(ExchangeRates)}

NameOfId(id) == Currencies[id + 1].name

(* C1: in every cycle predict_values has finished for all currencies and   *)
(* its predictions have been handed to predictions_insert before fit is    *)
(* called on any model, and every prediction of the cycle was computed     *)
(* with the parameters joblib.load returned in that cycle.                 *)
C1_ForecastBeforeRetrain ==
    /\ fitted /= {} => (sinkCalls = 1 /\ IsPrefix(before, Predictions))
    /\ \A k \in 1..Len(predictions) :
           predictions[k].prediction.params = loaded[predictions[k].currency_id]
    /\ \A k \in 1..Len(CycleRows) :
           CycleRows[k].value.params = loaded[CycleRows[k].currency_id]

(* a second cycle that ran to its end: its predictions used parameters     *)
(* fitted by the first cycle, and its own refit came after them            *)
C1_Witness ==
    /\ pc = "done"
    /\ cycle = 2
    /\ fitted /= {}
    /\ \E k \in 1..Len(CycleRows) :
           /\ CycleRows[k].value.params.gen = 1
           /\ files[CycleRows[k].currency_id].gen = 2

(* C2: a failure on one currency does not abort the batch: no exception    *)
(* escapes main's cycle, and every currency that has a model file and a    *)
(* non-empty history still gets its prediction and its refitted model.     *)
C2_FailuresIsolated ==
    CycleEnded =>
        /\ pc /= "raised"
        /\ \A id \in UniverseIds :
               (id \in DOMAIN files /\ id \notin EmptyIds) =>
                   (id \in PredictedIds /\ id \in fitted)

(* C3: for a currency with no stored observation the forecast step does    *)
(* not raise, emits no prediction for its id, records the id as skipped,   *)
(* and still emits the predictions of the other currencies.                *)
C3_EmptyHistorySkipped ==
    \A id \in EmptyIds :
        /\ ~(raisedIn = "predict" /\ i = id)
        /\ ForecastReturned =>
               /\ id \notin PredictedIds
               /\ id \in SkippedReport
               /\ (UniverseIds \ EmptyIds) \subseteq PredictedIds

(* C7: every prediction row written in a cycle carries the maximum date    *)
(* observed across the currencies, advanced by one day.                    *)
C7_TargetDateIsMaxObservedPlusOne ==
    sinkCalls = 1 =>
        \A k \in 1..Len(CycleRows) :
            CycleRows[k].date = MaxOf(ObservedDates) + 1

(* C8: the prediction sink is invoked exactly once per cycle, an           *)
(* invocation writes at most one row per currency_id, and rows written     *)
(* earlier are neither changed nor removed.                                *)
C8_SinkOncePerCycleAppendOnly ==
    /\ sinkCalls <= 1
    /\ CycleEnded => sinkCalls = 1
    /\ IsPrefix(before, Predictions)
    /\ \A j, k \in 1..Len(CycleRows) :
           j /= k => CycleRows[j].currency_id /= CycleRows[k].currency_id

(* C9: after exchange_rates_insert, every rate of the fetched table whose  *)
(* currency is known to Currencies is in ExchangeRates (it was there       *)
(* already, or it has been inserted).                                      *)
C9_InsertSkipsOnlyPresentRecords ==
    pc /= "idle" =>
        \A k \in 1..Len(currency_df) :
            LET id == LookupCurrency(Currencies, currency_df[k].name)
            IN  id /= -1 =>
                    \E r \in 1..Len(ExchangeRates) :
                        /\ ExchangeRates[r].currency_id = id
                        /\ ExchangeRates[r].date = currency_df[k].date

(* C10 as stated: models are keyed by the position of a currency in the    *)
(* most recently fetched table: the model at position p is forecast with   *)
(* the history of the currency the fetched table holds at position p.      *)
C10_ModelsKeyedByFetchedPosition ==
    \A k \in 1..Len(predictions) :
        predictions[k].prediction.of = {currency_df[predictions[k].currency_id + 1].name}

(* C10 as amended: models are keyed by the currency_id of table            *)
(* Currencies; whatever the order of the fetched table, model file id is   *)
(* forecast with, and refitted on, the observations of the one currency    *)
(* Currencies names id.                                                    *)
C10_ModelsKeyedByCurrencyId ==
    /\ \A k \in 1..Len(predictions) :
           LET p == predictions[k]
           IN  /\ p.prediction.of = {NameOfId(p.currency_id)}
               /\ p.prediction.params.gen > 0 =>
                      p.prediction.params.trainedOn = {NameOfId(p.currency_id)}
    /\ \A id \in DOMAIN files :
           files[id].gen > 0 => files[id].trainedOn = {NameOfId(id)}

(* a currency fetched at another position than its currency_id, forecast   *)
(* with a model an earlier cycle refitted                                  *)
C10_Witness ==
    \E k \in 1..Len(predictions) :
        LET p == predictions[k]
        IN  /\ p.prediction.params.gen > 0
            /\ currency_df[p.currency_id + 1].name /= NameOfId(p.currency_id)
            /\ p.currency_id \in fitted

=============================================================================
